---- MODULE Spec2Model ----
(***************************************************************************)
(* A model of the MAX31856 thermocouple driver (src/max31856.py) and of    *)
(* the two scripts that use it (src/example.py, src/async_example.py).     *)
(*                                                                         *)
(* Two specifications:                                                     *)
(*   SpecCodec  the pure register codec and temperature decoders, applied  *)
(*              to inputs drawn from bounded sets;                         *)
(*   Spec       the driver as a state machine: every Python statement of   *)
(*              set_register / get_register is one step, a DRDY falling    *)
(*              edge schedules the registered callback, which runs to      *)
(*              completion between two statements of the foreground, and   *)
(*              a bus write or read may raise.                             *)
(***************************************************************************)
EXTENDS Integers, Sequences, FiniteSets, TLC

(***************************************************************************)
(* Register addresses, src/max31856.py:3-7.                                *)
(***************************************************************************)
CONFIG_REGISTER_0 == 0
CONFIG_REGISTER_1 == 1
COLD_JUNCTION_T_OFFSET_REGISTER == 9
THERMOCOUPLE_T_REGISTER == 12
FAULT_STATUS_REGISTER == 15

(***************************************************************************)
(* ThermoCoupleType, src/max31856.py:10-18: the codes B_Type = 0 up to     *)
(* T_Type = 7; K_Type is the default of the constructor.                   *)
(***************************************************************************)
B_Type == 0
K_Type == 3
T_Type == 7
ThermoCoupleType == B_Type..T_Type

(***************************************************************************)
(* Bounds of the model.                                                    *)
(***************************************************************************)
\* build_config_register_1 is applied to every averaging count 1..MaxAvgSel.
MaxAvgSel == 17
\* ... and to every type code 0..MaxTcType (one code past T_Type is invalid).
MaxTcType == 8
\* The decoders see the bytes of KeyBytes and MaxSample + 1 more, spread
\* over 0..255.
MaxSample == 12
\* The constructor of the client program is given averaging counts
\* 1..MaxCtorAvgSel.
MaxCtorAvgSel == 3

(***************************************************************************)
(* Python's integer operators on non-negative integers (unbounded width).  *)
(***************************************************************************)
RECURSIVE BitAnd(_, _)
BitAnd(a, b) ==
    IF a = 0 \/ b = 0 THEN 0
    ELSE (a % 2) * (b % 2) + 2 * BitAnd(a \div 2, b \div 2)

RECURSIVE BitOr(_, _)
BitOr(a, b) ==
    IF a = 0 THEN b
    ELSE IF b = 0 THEN a
    ELSE (IF a % 2 = 1 \/ b % 2 = 1 THEN 1 ELSE 0) + 2 * BitOr(a \div 2, b \div 2)

Shl(a, n) == a * (2 ^ n)

Shr(a, n) == a \div (2 ^ n)

(***************************************************************************)
(* build_config_register_0, src/max31856.py:59-77.                         *)
(***************************************************************************)
build_config_register_0_swapped(one_shot, filter50Hz) ==
    LET cr0 == IF filter50Hz THEN Shl(1, 0) ELSE 0
    IN  IF one_shot THEN BitOr(cr0, Shl(1, 7)) ELSE BitOr(cr0, Shl(1, 6))

build_config_register_0(one_shot, filter50Hz) ==
    LET cr0 == IF filter50Hz THEN Shl(1, 0) ELSE 0
    IN  IF one_shot THEN BitOr(cr0, Shl(1, 6)) ELSE BitOr(cr0, Shl(1, 7))

(***************************************************************************)
(* build_config_register_1, src/max31856.py:79-90.                         *)
(*                                                                         *)
(* "avg_sel = avg_sel / 2" is Python's true division: after k rounds the   *)
(* variable holds the float avg_sel / 2^k, which is exact for every count  *)
(* of the model.  The loop state is the pair (num, den) with               *)
(* avg_sel = num / den, so that "avg_sel > 1" is num > den.                *)
(***************************************************************************)
RECURSIVE HalvingLoop(_, _, _)
HalvingLoop(num, den, level) ==
    IF num > den THEN HalvingLoop(num, 2 * den, level + 1) ELSE level

\* The loop as it would run with integer (floor) division.
RECURSIVE FloorHalvingLoop(_, _)
FloorHalvingLoop(avg_sel, level) ==
    IF avg_sel > 1 THEN FloorHalvingLoop(avg_sel \div 2, level + 1) ELSE level

build_config_register_1_floordiv(avg_sel, tc_type) ==
    BitOr(tc_type, Shl(FloorHalvingLoop(avg_sel, 0), 4))

build_config_register_1_shift3(avg_sel, tc_type) ==
    BitOr(tc_type, Shl(HalvingLoop(avg_sel, 1, 0), 3))

build_config_register_1(avg_sel, tc_type) ==
    BitOr(tc_type, Shl(HalvingLoop(avg_sel, 1, 0), 4))

(***************************************************************************)
(* The decoding part of read_cold_junction_temperature,                    *)
(* src/max31856.py:141-150, on the buffer rxdata = <<offset, msb, lsb>>.   *)
(* The method returns temp * 0.015625, which is exact in binary floating   *)
(* point: the operator gives temp, the result in units of 1/64 degC.       *)
(***************************************************************************)
ColdJunctionDecode_nooffset(rxdata) ==
    LET junc_msb == rxdata[2]
        junc_lsb == rxdata[3]
        temp == Shr(BitOr(Shl(junc_msb, 8), junc_lsb), 2)
    IN  IF BitAnd(junc_msb, 128) # 0 THEN temp - 16384 ELSE temp

ColdJunctionDecode(rxdata) ==
    LET offset == rxdata[1]
        junc_msb == rxdata[2]
        junc_lsb == rxdata[3]
        temp == offset + Shr(BitOr(Shl(junc_msb, 8), junc_lsb), 2)
    IN  IF BitAnd(junc_msb, 128) # 0 THEN temp - 16384 ELSE temp

(***************************************************************************)
(* The decoding part of read_thermocouple_temperature,                     *)
(* src/max31856.py:157-162, on the buffer out = <<high, middle, low>>.     *)
(* The method returns temp * 0.0078125 (exact): the operator gives temp,   *)
(* the result in units of 1/128 degC.                                      *)
(***************************************************************************)
ThermocoupleDecode_nosign(out) ==
    Shr(BitOr(BitOr(Shl(out[1], 16), Shl(out[2], 8)), out[3]), 5)

ThermocoupleDecode(out) ==
    LET tc_highByte == out[1]
        tc_middleByte == out[2]
        tc_lowByte == out[3]
        temp == Shr(BitOr(BitOr(Shl(tc_highByte, 16), Shl(tc_middleByte, 8)),
                          tc_lowByte), 5)
    IN  IF BitAnd(tc_highByte, 128) # 0 THEN temp - 524288 ELSE temp


(***************************************************************************)
(* State.                                                                  *)
(***************************************************************************)
VARIABLES
    program,     \* which script runs: "example", "async_example" or "client"
    avgsel,      \* the avgsel argument of MAX31856(...)
    tc_type,     \* the tc_type argument of MAX31856(...)
    ip,          \* how many calls of its script the foreground has made
    callArgs,    \* arguments of the foreground's call of set_register/get_register
    op,          \* per context ("fg", "irq"): the method or callback last entered
    txi,         \* per context: which register transaction of op is running
    pc,          \* per context: the next statement of set_register/get_register
    cs,          \* level of self.chip_select (0 = selected)
    regs,        \* Configuration Registers 0 and 1: the value last sent to each
    convPending, \* a one-shot conversion was requested and has not finished
    drdy,        \* level of the DRDY line (0 = data ready)
    handler,     \* drdy_pin.irq(on_event, Pin.IRQ_FALLING) has been executed
    irqPending,  \* a falling edge was seen and on_event has not started yet
    data,        \* what spi_handle.read returned to the foreground
    ret,         \* what the foreground's last call returned (0 for None)
    log,         \* pin and bus operations the foreground's current call executed
    fn,          \* SpecCodec: the codec function under test
    args,        \* SpecCodec: its integer arguments
    flags,       \* SpecCodec: its boolean arguments
    applied,     \* SpecCodec: the function has been applied
    out          \* SpecCodec: its result

driverVars == <<program, avgsel, tc_type, ip, callArgs, op, txi, pc, cs, regs, convPending,
                drdy, handler, irqPending, data, ret, log>>
codecVars == <<fn, args, flags, applied, out>>
vars == <<program, avgsel, tc_type, ip, callArgs, op, txi, pc, cs, regs, convPending,
          drdy, handler, irqPending, data, ret, log, fn, args, flags, applied, out>>

Ctx == {"fg", "irq"}

(***************************************************************************)
(* The register transactions of each method, in program order.             *)
(***************************************************************************)
SetReg(register, value) == [kind |-> "set", reg |-> register, value |-> value, n |-> 0]

GetReg(register, nbytes) == [kind |-> "get", reg |-> register, value |-> 0, n |-> nbytes]

\* __init__, src/max31856.py:55-57
init_transactions(a, t) ==
    <<SetReg(CONFIG_REGISTER_1, build_config_register_1(a, t))>>

\* setup_drdy_interrupt after the handler is registered, src/max31856.py:101-104
setup_drdy_interrupt_write_first ==
    <<SetReg(CONFIG_REGISTER_0, build_config_register_0(FALSE, TRUE)),
      GetReg(THERMOCOUPLE_T_REGISTER, 2)>>

setup_drdy_interrupt_transactions ==
    <<GetReg(THERMOCOUPLE_T_REGISTER, 2),
      SetReg(CONFIG_REGISTER_0, build_config_register_0(FALSE, TRUE))>>

\* request_one_shot_sample, src/max31856.py:112-114
request_one_shot_sample_continuous ==
    <<SetReg(CONFIG_REGISTER_0, build_config_register_0(FALSE, TRUE))>>

request_one_shot_sample_transactions ==
    <<SetReg(CONFIG_REGISTER_0, build_config_register_0(TRUE, TRUE))>>

\* read_cold_junction_temperature, src/max31856.py:140
read_cold_junction_temperature_transactions ==
    <<GetReg(COLD_JUNCTION_T_OFFSET_REGISTER, 3)>>

\* read_thermocouple_temperature, src/max31856.py:156
read_thermocouple_temperature_transactions ==
    <<GetReg(THERMOCOUPLE_T_REGISTER, 3)>>

\* get_thermocouple_health_status, src/max31856.py:176
get_thermocouple_health_status_transactions ==
    <<GetReg(FAULT_STATUS_REGISTER, 1)>>

\* set_register(register, value) called by the script itself,
\* src/max31856.py:116-125
set_register_transactions(register, value) == <<SetReg(register, value)>>

\* get_register(register, nbytes) called by the script itself,
\* src/max31856.py:127-137
get_register_transactions(register, nbytes) == <<GetReg(register, nbytes)>>

\* on_temp_read, src/async_example.py:6-10: the callback calls three readers
on_temp_read_transactions ==
    get_thermocouple_health_status_transactions
        \o read_cold_junction_temperature_transactions
        \o read_thermocouple_temperature_transactions

Transactions(o) ==
    CASE o = "__init__" -> init_transactions(avgsel, tc_type)
      [] o = "setup_drdy_interrupt" -> setup_drdy_interrupt_transactions
      [] o = "request_one_shot_sample" -> request_one_shot_sample_transactions
      [] o = "read_cold_junction_temperature" ->
             read_cold_junction_temperature_transactions
      [] o = "read_thermocouple_temperature" ->
             read_thermocouple_temperature_transactions
      [] o = "get_thermocouple_health_status" ->
             get_thermocouple_health_status_transactions
      [] o = "set_register" ->
             set_register_transactions(callArgs.register, callArgs.value)
      [] o = "get_register" ->
             get_register_transactions(callArgs.register, callArgs.nbytes)
      [] o = "on_temp_read" -> on_temp_read_transactions
      [] OTHER -> <<>>

CurrentTxn(c) == Transactions(op[c])[txi[c]]

\* The value a method returns from the bytes its read gave it.
ReturnValue(o, rx) ==
    CASE o = "read_cold_junction_temperature" -> ColdJunctionDecode(rx)
      [] o = "read_thermocouple_temperature" -> ThermocoupleDecode(rx)
      [] o = "get_thermocouple_health_status" -> rx[1]
      [] o = "get_register" -> rx
      [] OTHER -> 0

(***************************************************************************)
(* The scripts.                                                            *)
(***************************************************************************)
Methods == {"set_register", "get_register",
            "setup_drdy_interrupt", "request_one_shot_sample",
            "read_cold_junction_temperature", "read_thermocouple_temperature",
            "get_thermocouple_health_status"}

ReadMethods == {"read_cold_junction_temperature", "read_thermocouple_temperature",
                "get_thermocouple_health_status"}

\* src/example.py:4-11 (time.sleep(0.2) changes no state: a conversion may
\* end, and DRDY fall, between any two statements)
example_script == <<"__init__", "request_one_shot_sample",
                    "read_cold_junction_temperature",
                    "read_thermocouple_temperature">>

\* src/async_example.py:4-12
async_example_script == <<"__init__", "setup_drdy_interrupt">>

Programs == {"example", "async_example", "client"}

\* The calls the foreground may make next.
NextCalls ==
    CASE program = "example" ->
             IF ip < Len(example_script) THEN {example_script[ip + 1]} ELSE {}
      [] program = "async_example" ->
             IF ip < Len(async_example_script)
             THEN {async_example_script[ip + 1]} ELSE {}
      [] OTHER -> IF ip = 0 THEN {"__init__"} ELSE Methods

(***************************************************************************)
(* Events of the foreground's log.                                         *)
(***************************************************************************)
Event(e, b, k) == [ev |-> e, bytes |-> b, n |-> k]

Running(p) == p \in {"irq", "cs0", "write", "read", "cs1"}

\* Between chip_select.value(0) and chip_select.value(1) of a transaction.
InFlight(p) == p \in {"write", "read", "cs1"}

IrqRunning == Running(pc["irq"])

\* The context whose next statement executes: a scheduled callback starts
\* before the next statement of the foreground, runs to completion and is
\* not re-entered.
CanStep(c) ==
    IF c = "irq" THEN IrqRunning ELSE ~IrqRunning /\ ~irqPending

Bit(v, k) == (v \div (2 ^ k)) % 2

\* The chip converts in continuous mode (CR0 bit 7) or while a one-shot
\* request (CR0 bit 6) is outstanding.
Converting == Bit(regs[CONFIG_REGISTER_0], 7) = 1 \/ convPending

\* Bytes the bus returns to a read in Spec.
WireBytes == {0, 25, 231}

\* Configuration Register 0 when the script starts: the power-on value, or
\* a value an earlier run of the driver left in the chip.
PriorCR0 == {0} \cup {build_config_register_0(o, TRUE) : o \in BOOLEAN}

\* Type codes given to the constructor by the client program: the default
\* and one code outside ThermoCoupleType.
CtorTcTypes == {K_Type, MaxTcType}


(***************************************************************************)
(* Init: nothing has run.  The chip keeps whatever an earlier run left in  *)
(* it; the scripts construct the driver with the default avgsel = 2 and    *)
(* K_Type (src/max31856.py:45-46), the client with any arguments.          *)
(***************************************************************************)
\* No arguments: every method but set_register and get_register.
NoArgs == [register |-> 0, value |-> 0, nbytes |-> 0]

\* Arguments the client gives to its own calls of set_register: both
\* configuration registers, the value 0 and a value with bits 7, 6 and 0 set.
DirectSetArgs ==
    {[register |-> r, value |-> v, nbytes |-> 0] :
        r \in {CONFIG_REGISTER_0, CONFIG_REGISTER_1}, v \in {0, 193}}

\* ... and to its own calls of get_register.
DirectGetArgs ==
    {[register |-> r, value |-> 0, nbytes |-> k] :
        r \in {CONFIG_REGISTER_0, THERMOCOUPLE_T_REGISTER}, k \in 1..2}

ArgsOf(o) ==
    CASE o = "set_register" -> DirectSetArgs
      [] o = "get_register" -> DirectGetArgs
      [] OTHER -> {NoArgs}

CodecIdle ==
    /\ fn = "none"
    /\ args = <<>>
    /\ flags = <<>>
    /\ applied = FALSE
    /\ out = 0

Init ==
    /\ program \in Programs
    /\ IF program = "client"
       THEN avgsel \in 1..MaxCtorAvgSel /\ tc_type \in CtorTcTypes
       ELSE avgsel = 2 /\ tc_type = K_Type
    /\ ip = 0
    /\ callArgs = NoArgs
    /\ op = [c \in Ctx |-> "none"]
    /\ txi = [c \in Ctx |-> 0]
    /\ pc = [c \in Ctx |-> "idle"]
    /\ cs = 1
    /\ \E c0 \in PriorCR0 :
          regs = (CONFIG_REGISTER_0 :> c0) @@
                 (CONFIG_REGISTER_1 :> build_config_register_1(1, K_Type))
    /\ convPending \in {FALSE, Bit(regs[CONFIG_REGISTER_0], 6) = 1}
    /\ drdy \in {1} \cup (IF regs[CONFIG_REGISTER_0] # 0 THEN {0} ELSE {})
    /\ handler = FALSE
    /\ irqPending = FALSE
    /\ data = <<>>
    /\ ret = 0
    /\ log = <<>>
    /\ CodecIdle

(***************************************************************************)
(* The foreground calls the next method of its script.  MAX31856(...)      *)
(* first makes the chip-select pin an output at level 1                    *)
(* (src/max31856.py:48); setup_drdy_interrupt first registers the handler. *)
(* A script ends at an uncaught exception; the client goes on.             *)
(***************************************************************************)
Call ==
    /\ CanStep("fg")
    /\ \/ pc["fg"] \in {"idle", "returned"}
       \/ pc["fg"] = "raised" /\ program = "client"
    /\ \E o \in NextCalls :
          /\ op' = [op EXCEPT !["fg"] = o]
          /\ pc' = [pc EXCEPT !["fg"] =
                        IF o = "setup_drdy_interrupt" THEN "irq" ELSE "cs0"]
          /\ cs' = IF o = "__init__" THEN 1 ELSE cs
          /\ callArgs' \in ArgsOf(o)
    /\ txi' = [txi EXCEPT !["fg"] = 1]
    /\ ip' = IF program = "client" THEN 1 ELSE ip + 1
    /\ log' = <<>>
    /\ data' = <<>>
    /\ ret' = 0
    /\ UNCHANGED <<program, avgsel, tc_type, regs, convPending, drdy, handler,
                   irqPending>>
    /\ UNCHANGED codecVars

(***************************************************************************)
(* setup_drdy_interrupt, src/max31856.py:99-100: the DRDY pin becomes an   *)
(* input and on_event is bound to its falling edge.                        *)
(***************************************************************************)
RegisterIrq ==
    /\ CanStep("fg")
    /\ pc["fg"] = "irq"
    /\ handler' = TRUE
    /\ pc' = [pc EXCEPT !["fg"] = "cs0"]
    /\ UNCHANGED <<program, avgsel, tc_type, ip, op, txi, cs, regs, convPending,
                   drdy, irqPending, data, ret, log>>
    /\ UNCHANGED <<callArgs, fn, args, flags, applied, out>>

(***************************************************************************)
(* self.chip_select.value(0), src/max31856.py:123 and 133.                 *)
(***************************************************************************)
ChipSelectLow(c) ==
    /\ CanStep(c)
    /\ pc[c] = "cs0"
    /\ cs' = 0
    /\ pc' = [pc EXCEPT ![c] = "write"]
    /\ log' = IF c = "fg" THEN Append(log, Event("cs0", <<>>, 0)) ELSE log
    /\ UNCHANGED <<program, avgsel, tc_type, ip, op, txi, regs, convPending,
                   drdy, handler, irqPending, data, ret>>
    /\ UNCHANGED <<callArgs, fn, args, flags, applied, out>>

\* The bytes self.spi_handle.write sends for a transaction.
WriteBytes(t) ==
    IF t.kind = "set" THEN <<BitOr(t.reg, 128), t.value>> ELSE <<t.reg>>

(***************************************************************************)
(* self.spi_handle.write(...), src/max31856.py:124 and 134.  A write to a  *)
(* configuration register lands in the register; bit 6 of CR0 requests a   *)
(* one-shot conversion.                                                    *)
(***************************************************************************)
SpiWrite(c) ==
    /\ CanStep(c)
    /\ pc[c] = "write"
    /\ LET t == CurrentTxn(c)
       IN  /\ log' = IF c = "fg"
                     THEN Append(log, Event("write", WriteBytes(t), 0))
                     ELSE log
           /\ pc' = [pc EXCEPT ![c] = IF t.kind = "set" THEN "cs1" ELSE "read"]
           /\ regs' = IF t.kind = "set" /\ t.reg \in DOMAIN regs
                      THEN [regs EXCEPT ![t.reg] = t.value]
                      ELSE regs
           /\ convPending' = IF t.kind = "set" /\ t.reg = CONFIG_REGISTER_0
                             THEN Bit(t.value, 6) = 1
                             ELSE convPending
    /\ UNCHANGED <<program, avgsel, tc_type, ip, op, txi, cs, drdy, handler,
                   irqPending, data, ret>>
    /\ UNCHANGED <<callArgs, fn, args, flags, applied, out>>

(***************************************************************************)
(* self.spi_handle.write raises: the exception leaves set_register or      *)
(* get_register at once, and the method that called it.                    *)
(***************************************************************************)
SpiWriteRaises(c) ==
    /\ CanStep(c)
    /\ pc[c] = "write"
    /\ pc' = [pc EXCEPT ![c] = "raised"]
    /\ UNCHANGED <<program, avgsel, tc_type, ip, op, txi, cs, regs, convPending,
                   drdy, handler, irqPending, data, ret, log>>
    /\ UNCHANGED <<callArgs, fn, args, flags, applied, out>>

(***************************************************************************)
(* data = self.spi_handle.read(nbytes), src/max31856.py:135.  Reading the  *)
(* thermocouple register releases DRDY (src/max31856.py:95-97).  The       *)
(* callback prints what it reads, the foreground keeps it.                 *)
(***************************************************************************)
SpiRead(c) ==
    /\ CanStep(c)
    /\ pc[c] = "read"
    /\ LET t == CurrentTxn(c)
       IN  /\ IF c = "fg"
              THEN \E rx \in [1..t.n -> WireBytes] : data' = rx
              ELSE data' = data
           /\ log' = IF c = "fg" THEN Append(log, Event("read", <<>>, t.n)) ELSE log
           /\ drdy' = IF t.reg = THERMOCOUPLE_T_REGISTER THEN 1 ELSE drdy
    /\ pc' = [pc EXCEPT ![c] = "cs1"]
    /\ UNCHANGED <<program, avgsel, tc_type, ip, op, txi, cs, regs, convPending,
                   handler, irqPending, ret>>
    /\ UNCHANGED <<callArgs, fn, args, flags, applied, out>>

SpiReadRaises(c) ==
    /\ CanStep(c)
    /\ pc[c] = "read"
    /\ pc' = [pc EXCEPT ![c] = "raised"]
    /\ UNCHANGED <<program, avgsel, tc_type, ip, op, txi, cs, regs, convPending,
                   drdy, handler, irqPending, data, ret, log>>
    /\ UNCHANGED <<callArgs, fn, args, flags, applied, out>>

(***************************************************************************)
(* self.chip_select.value(1), src/max31856.py:125 and 136, and what        *)
(* follows it: the next transaction of the method, or its return with the  *)
(* decoded value.                                                          *)
(***************************************************************************)
ChipSelectHigh(c) ==
    /\ CanStep(c)
    /\ pc[c] = "cs1"
    /\ cs' = 1
    /\ log' = IF c = "fg" THEN Append(log, Event("cs1", <<>>, 0)) ELSE log
    /\ IF txi[c] < Len(Transactions(op[c]))
       THEN /\ txi' = [txi EXCEPT ![c] = txi[c] + 1]
            /\ pc' = [pc EXCEPT ![c] = "cs0"]
            /\ ret' = ret
       ELSE /\ txi' = txi
            /\ pc' = [pc EXCEPT ![c] = "returned"]
            /\ ret' = IF c = "fg" THEN ReturnValue(op[c], data) ELSE ret
    /\ data' = IF c = "fg" THEN <<>> ELSE data
    /\ UNCHANGED <<program, avgsel, tc_type, ip, op, regs, convPending, drdy,
                   handler, irqPending>>
    /\ UNCHANGED <<callArgs, fn, args, flags, applied, out>>

(***************************************************************************)
(* The chip finishes a conversion: DRDY falls, and a registered handler    *)
(* is scheduled (Pin.IRQ_FALLING, src/max31856.py:100).                    *)
(***************************************************************************)
DrdyFalls ==
    /\ Converting
    /\ drdy = 1
    /\ drdy' = 0
    /\ convPending' = FALSE
    /\ irqPending' = (irqPending \/ handler)
    /\ UNCHANGED <<program, avgsel, tc_type, ip, op, txi, pc, cs, regs, handler,
                   data, ret, log>>
    /\ UNCHANGED <<callArgs, fn, args, flags, applied, out>>

(***************************************************************************)
(* The scheduled callback starts, between two statements of the            *)
(* foreground (src/async_example.py:6).                                    *)
(***************************************************************************)
IrqDispatch ==
    /\ irqPending
    /\ ~IrqRunning
    /\ irqPending' = FALSE
    /\ op' = [op EXCEPT !["irq"] = "on_temp_read"]
    /\ txi' = [txi EXCEPT !["irq"] = 1]
    /\ pc' = [pc EXCEPT !["irq"] = "cs0"]
    /\ UNCHANGED <<program, avgsel, tc_type, ip, cs, regs, convPending, drdy,
                   handler, data, ret, log>>
    /\ UNCHANGED <<callArgs, fn, args, flags, applied, out>>

SelectChip == \E c \in Ctx : ChipSelectLow(c)

BusWrite == \E c \in Ctx : SpiWrite(c)

BusWriteRaises == \E c \in Ctx : SpiWriteRaises(c)

BusRead == \E c \in Ctx : SpiRead(c)

BusReadRaises == \E c \in Ctx : SpiReadRaises(c)

DeselectChip == \E c \in Ctx : ChipSelectHigh(c)

Next ==
    \/ Call
    \/ RegisterIrq
    \/ SelectChip
    \/ BusWrite
    \/ BusWriteRaises
    \/ BusRead
    \/ BusReadRaises
    \/ DeselectChip
    \/ DrdyFalls
    \/ IrqDispatch

Spec == Init /\ [][Next]_vars


(***************************************************************************)
(* SpecCodec: the codec functions and the decoders on bounded inputs.      *)
(* The driver does not run: its state is that of the example script        *)
(* before its first statement, on a chip at its power-on values.           *)
(***************************************************************************)
KeyBytes == {0, 1, 25, 127, 128, 144, 231, 255}

SampleBytes == KeyBytes \cup {(43 * k) % 256 : k \in 0..MaxSample}

DriverIdle ==
    /\ program = "example"
    /\ avgsel = 2
    /\ tc_type = K_Type
    /\ ip = 0
    /\ callArgs = NoArgs
    /\ op = [c \in Ctx |-> "none"]
    /\ txi = [c \in Ctx |-> 0]
    /\ pc = [c \in Ctx |-> "idle"]
    /\ cs = 1
    /\ regs = (CONFIG_REGISTER_0 :> 0) @@
              (CONFIG_REGISTER_1 :> build_config_register_1(1, K_Type))
    /\ convPending = FALSE
    /\ drdy = 1
    /\ handler = FALSE
    /\ irqPending = FALSE
    /\ data = <<>>
    /\ ret = 0
    /\ log = <<>>

InitCodec ==
    /\ DriverIdle
    /\ applied = FALSE
    /\ out = 0
    /\ \/ /\ fn = "build_config_register_0"
          /\ args = <<>>
          /\ flags \in BOOLEAN \X BOOLEAN
       \/ /\ fn = "build_config_register_1"
          /\ args \in (1..MaxAvgSel) \X (0..MaxTcType)
          /\ flags = <<>>
       \/ /\ fn \in {"read_cold_junction_temperature",
                     "read_thermocouple_temperature"}
          /\ args \in SampleBytes \X SampleBytes \X SampleBytes
          /\ flags = <<>>

ApplyConfigRegister0 ==
    /\ fn = "build_config_register_0"
    /\ ~applied
    /\ applied' = TRUE
    /\ out' = build_config_register_0(flags[1], flags[2])
    /\ UNCHANGED <<fn, args, flags>>
    /\ UNCHANGED driverVars

ApplyConfigRegister1 ==
    /\ fn = "build_config_register_1"
    /\ ~applied
    /\ applied' = TRUE
    /\ out' = build_config_register_1(args[1], args[2])
    /\ UNCHANGED <<fn, args, flags>>
    /\ UNCHANGED driverVars

ApplyColdJunctionDecode ==
    /\ fn = "read_cold_junction_temperature"
    /\ ~applied
    /\ applied' = TRUE
    /\ out' = ColdJunctionDecode(args)
    /\ UNCHANGED <<fn, args, flags>>
    /\ UNCHANGED driverVars

ApplyThermocoupleDecode ==
    /\ fn = "read_thermocouple_temperature"
    /\ ~applied
    /\ applied' = TRUE
    /\ out' = ThermocoupleDecode(args)
    /\ UNCHANGED <<fn, args, flags>>
    /\ UNCHANGED driverVars

NextCodec ==
    \/ ApplyConfigRegister0
    \/ ApplyConfigRegister1
    \/ ApplyColdJunctionDecode
    \/ ApplyThermocoupleDecode

SpecCodec == InitCodec /\ [][NextCodec]_vars

(***************************************************************************)
(* Arithmetic used to state the properties, independent of the code.       *)
(***************************************************************************)
IsPowerOfTwo(n) == \E k \in 0..n : 2 ^ k = n

FloorLog2(n) == CHOOSE k \in 0..n : 2 ^ k <= n /\ n < 2 ^ (k + 1)

CeilLog2(n) == CHOOSE k \in 0..n : n <= 2 ^ k /\ (k = 0 \/ 2 ^ (k - 1) < n)

\* The value of a w-bit field read as a two's-complement number.
TwosComplement(field, w) == IF field >= 2 ^ (w - 1) THEN field - 2 ^ w ELSE field

Applied(f) == fn = f /\ applied

(***************************************************************************)
(* C1 as claimed: for an averaging count that is not a power of two, the   *)
(* level in bits 4 and above of build_config_register_1's result is        *)
(* floor(log2(avg_sel)): the count is rounded down.                        *)
(***************************************************************************)
C1_RoundsDown ==
    (Applied("build_config_register_1") /\ ~IsPowerOfTwo(args[1]))
        => out \div 16 = FloorLog2(args[1])

(***************************************************************************)
(* C1 as amended: for an averaging count that is not a power of two, the   *)
(* level in bits 4 and above of build_config_register_1's result is        *)
(* ceil(log2(avg_sel)) = floor(log2(avg_sel)) + 1: the count is rounded    *)
(* up (3 -> 2, 5..7 -> 3, 9..15 -> 4).                                     *)
(***************************************************************************)
C1_RoundsUp ==
    (Applied("build_config_register_1") /\ ~IsPowerOfTwo(args[1]))
        => /\ out \div 16 = CeilLog2(args[1])
           /\ out \div 16 = FloorLog2(args[1]) + 1
           /\ (args[1] = 3 => out \div 16 = 2)
           /\ (args[1] \in 5..7 => out \div 16 = 3)
           /\ (args[1] \in 9..15 => out \div 16 = 4)

C1_Witness ==
    Applied("build_config_register_1") /\ args[1] = 3 /\ out \div 16 = 2

(***************************************************************************)
(* C2: for avg_sel in {1,2,4,8,16} and a type code in 0..7,                *)
(* build_config_register_1 returns tc_type | (level << 4) with level       *)
(* 0,1,2,3,4: the low 4 bits are tc_type, bits 4..6 the level, bit 7 zero. *)
(***************************************************************************)
C2_PowerOfTwoLevels ==
    (/\ Applied("build_config_register_1")
     /\ args[1] \in {1, 2, 4, 8, 16}
     /\ args[2] \in ThermoCoupleType)
        => LET level == CASE args[1] = 1 -> 0
                          [] args[1] = 2 -> 1
                          [] args[1] = 4 -> 2
                          [] args[1] = 8 -> 3
                          [] args[1] = 16 -> 4
           IN  /\ out = args[2] + 16 * level
               /\ out % 16 = args[2]
               /\ (out \div 16) % 8 = level
               /\ out \div 128 = 0

C2_Witness ==
    Applied("build_config_register_1") /\ args = <<16, T_Type>> /\ out = 71

(***************************************************************************)
(* C3: build_config_register_0 returns a byte whose bit 0 is filter50Hz,   *)
(* whose bit 6 is set iff one_shot and bit 7 iff not one_shot, and whose   *)
(* bits 1..5 are zero; (true,true) = 0x41, (false,true) = 0x81,            *)
(* (true,false) = 0x40.                                                    *)
(***************************************************************************)
C3_ConfigRegister0Bits ==
    Applied("build_config_register_0")
        => LET one_shot == flags[1]
               filter50Hz == flags[2]
           IN  /\ out \in 0..255
               /\ Bit(out, 0) = (IF filter50Hz THEN 1 ELSE 0)
               /\ Bit(out, 6) = (IF one_shot THEN 1 ELSE 0)
               /\ Bit(out, 7) = (IF one_shot THEN 0 ELSE 1)
               /\ \A k \in 1..5 : Bit(out, k) = 0
               /\ (flags = <<TRUE, TRUE>> => out = 65)
               /\ (flags = <<FALSE, TRUE>> => out = 129)
               /\ (flags = <<TRUE, FALSE>> => out = 64)

C3_Witness ==
    Applied("build_config_register_0") /\ flags = <<FALSE, TRUE>> /\ out = 129

(***************************************************************************)
(* C4: on the buffer [offset, msb, lsb] read_cold_junction_temperature     *)
(* returns, in units of 1/64 degC, (((msb<<8)|lsb)>>2) + offset, minus     *)
(* 0x4000 when msb has bit 0x80 set; with offset 0 that is the             *)
(* two's-complement value of the 14-bit field, in -8192..8191;             *)
(* [0,0x19,0] gives 1600 and [0,0xE7,0] gives -1600.                       *)
(***************************************************************************)
C4_ColdJunctionValue ==
    Applied("read_cold_junction_temperature")
        => LET offset == args[1]
               msb == args[2]
               lsb == args[3]
               field == (msb * 256 + lsb) \div 4
           IN  /\ out = field + offset - (IF msb >= 128 THEN 16384 ELSE 0)
               /\ (offset = 0 => /\ out = TwosComplement(field, 14)
                                 /\ out \in -8192..8191)
               /\ (args = <<0, 25, 0>> => out = 1600)
               /\ (args = <<0, 231, 0>> => out = -1600)

C4_Witness ==
    /\ Applied("read_cold_junction_temperature")
    /\ args = <<43, 231, 0>>
    /\ out = -1557

(***************************************************************************)
(* C5: on the buffer [high, mid, low] read_thermocouple_temperature        *)
(* returns, in units of 1/128 degC, the two's-complement value of the      *)
(* 19-bit field ((high<<16)|(mid<<8)|low)>>5, always in -262144..262143;   *)
(* [0x01,0x90,0x00] gives 3200.                                            *)
(***************************************************************************)
C5_ThermocoupleValue ==
    Applied("read_thermocouple_temperature")
        => LET high == args[1]
               mid == args[2]
               low == args[3]
               field == (high * 65536 + mid * 256 + low) \div 32
           IN  /\ out = TwosComplement(field, 19)
               /\ out = field - (IF high >= 128 THEN 524288 ELSE 0)
               /\ out \in -262144..262143
               /\ (args = <<1, 144, 0>> => out = 3200)

C5_Witness ==
    /\ Applied("read_thermocouple_temperature")
    /\ args = <<255, 231, 0>>
    /\ out = -200


(***************************************************************************)
(* The acquisition mode selected by a value of Configuration Register 0.   *)
(***************************************************************************)
ModeOf(cr0) ==
    IF Bit(cr0, 7) = 1 THEN "Continuous"
    ELSE IF Bit(cr0, 6) = 1 THEN "OneShotPending"
    ELSE "Idle"

Mode == ModeOf(regs[CONFIG_REGISTER_0])

Returned(o) == op["fg"] = o /\ pc["fg"] = "returned"

\* What the k-th pin or bus operation of setup_drdy_interrupt has to be.
SetupEventOk(k, e) ==
    CASE k = 1 -> e = Event("cs0", <<>>, 0)
      [] k = 2 -> e = Event("write", <<THERMOCOUPLE_T_REGISTER>>, 0)
      [] k = 3 -> e.ev = "read" /\ e.n > 0
      [] k = 4 -> e = Event("cs1", <<>>, 0)
      [] k = 5 -> e = Event("cs0", <<>>, 0)
      [] k = 6 -> /\ e.ev = "write"
                  /\ Len(e.bytes) = 2
                  /\ e.bytes[1] = 128
                  /\ Bit(e.bytes[2], 7) = 1
                  /\ Bit(e.bytes[2], 6) = 0
      [] k = 7 -> e = Event("cs1", <<>>, 0)
      [] OTHER -> FALSE

(***************************************************************************)
(* C6: from any prior mode, a call of setup_drdy_interrupt executes, in    *)
(* this order and nothing else: one read transaction of the thermocouple   *)
(* register (select, address 0x0C, read, deselect), whose result it        *)
(* discards, and then one write of Configuration Register 0 (select,       *)
(* bytes 0x80 and a value with bit 7 set and bit 6 clear, deselect).  At   *)
(* every moment of the call its operations are a prefix of that sequence,  *)
(* and the whole sequence when it returns.                                 *)
(***************************************************************************)
C6_SetupDiscardReadThenContinuous ==
    op["fg"] = "setup_drdy_interrupt"
        => /\ \A k \in 1..Len(log) : SetupEventOk(k, log[k])
           /\ (pc["fg"] = "returned" => Len(log) = 7 /\ ret = 0 /\ data = <<>>)

C6_Witness ==
    /\ Returned("setup_drdy_interrupt")
    /\ Len(log) = 7
    /\ log[6].bytes = <<128, 129>>

(***************************************************************************)
(* C7: whenever a transaction of set_register or get_register ends, by     *)
(* returning or by a bus write or read that raises, chip-select is high.   *)
(***************************************************************************)
C7_ChipSelectHighAfterTransaction ==
    [][\A c \in Ctx : (InFlight(pc[c]) /\ ~InFlight(pc'[c])) => cs' = 1]_vars

(***************************************************************************)
(* C8: a constructor given a type code outside 0..7 or an averaging count  *)
(* outside {1,2,4,8,16} sends no Configuration Register 1 write and does   *)
(* not return normally.                                                    *)
(***************************************************************************)
C8_InvalidArgumentsRejected ==
    (/\ op["fg"] = "__init__"
     /\ (tc_type \notin ThermoCoupleType \/ avgsel \notin {1, 2, 4, 8, 16}))
        => /\ \A k \in 1..Len(log) : log[k].ev # "write"
           /\ pc["fg"] # "returned"

(***************************************************************************)
(* C9: in the asynchronous example the callback never has a transaction    *)
(* in flight while a transaction of the foreground is in flight.           *)
(***************************************************************************)
C9_OneTransactionInFlight ==
    program = "async_example" => ~(InFlight(pc["irq"]) /\ InFlight(pc["fg"]))

(***************************************************************************)
(* C10: the mode is the one the most recent Configuration Register 0 write *)
(* selects: OneShotPending once request_one_shot_sample has returned,      *)
(* Continuous once setup_drdy_interrupt has returned, whatever it was      *)
(* before.  The three readers, in the foreground or in the callback,       *)
(* leave both configuration registers (and so the mode) unchanged: each    *)
(* write they send is a single address byte with bit 7 clear.              *)
(***************************************************************************)
C10_ModeFollowsLastWrite ==
    /\ [](/\ Returned("request_one_shot_sample") => Mode = "OneShotPending"
          /\ Returned("setup_drdy_interrupt") => Mode = "Continuous"
          /\ op["fg"] \in ReadMethods
                => \A k \in 1..Len(log) :
                      log[k].ev = "write"
                          => Len(log[k].bytes) = 1 /\ log[k].bytes[1] < 128)
    /\ [][\A c \in Ctx :
            (/\ op[c] \in ReadMethods \cup {"on_temp_read"}
             /\ Running(pc[c])
             /\ CanStep(c))
                => regs' = regs]_vars

C10_Witness ==
    /\ program = "example"
    /\ Returned("read_thermocouple_temperature")
    /\ Mode = "OneShotPending"
    /\ Len(log) = 4

====
